---------------------------- MODULE Spec2Model ----------------------------
(***************************************************************************)
(* Model of mgen/rotation_matrix_nd.py: rotation_from_angle_and_plane.     *)
(*                                                                         *)
(* Numbers.  A float is modelled as an exact fraction <<n, d>> in lowest   *)
(* terms with d > 0; the IEEE special values the code can produce are the  *)
(* fractions with d = 0: <<0, 0>> is NaN, <<1, 0>> is +inf and <<-1, 0>>   *)
(* is -inf.  Rounding of finite results is not modelled: every finite      *)
(* result is the exact real value, so "=" between finite numbers below     *)
(* reads "equal up to floating-point rounding" in the program.             *)
(*                                                                         *)
(* Inputs.  Vectors are integer sequences whose Euclidean norm is an       *)
(* integer, so that np.linalg.norm is exact.  An angle is a pair <<q, k>>  *)
(* standing for the real number q*(pi/2) + k*arctan(4/3), whose cosine and *)
(* sine are rational.  A tolerance is a non-negative fraction.             *)
(***************************************************************************)
EXTENDS Integers, Sequences, FiniteSets, TLC

VARIABLES
    pc,          \* the next source line of the call to execute
    arg1, arg2,  \* the caller's two vectors (never modified)
    angle,       \* parameter angle
    abs_tol,     \* parameter abs_tolerance_orthogonal_check
    vector1,     \* local vector1 (rebound at line 41)
    vector2,     \* local vector2 (rebound at line 42)
    V, W,        \* locals V and W (line 52, 53)
    result,      \* how the call ended: nothing yet, an error, or a matrix
    steps        \* the source lines executed so far, in order

vars == <<pc, arg1, arg2, angle, abs_tol, vector1, vector2, V, W, result, steps>>

-----------------------------------------------------------------------------
(* Bounds of the input space *)

MaxDim == 4
MaxComp == 1
MaxQuarter == 1
MaxTheta == 1
TolSteps == 2

-----------------------------------------------------------------------------
(* Floating-point numbers *)

NaN == <<0, 0>>
PosInf == <<1, 0>>
NegInf == <<-1, 0>>
Zero == <<0, 1>>
One == <<1, 1>>

Abs(i) == IF i < 0 THEN -i ELSE i
Sign(i) == IF i < 0 THEN -1 ELSE IF i > 0 THEN 1 ELSE 0

RECURSIVE GCD(_, _)
GCD(a, b) == IF b = 0 THEN a ELSE GCD(b, a % b)

\* the fraction n/d (d # 0) in lowest terms with a positive denominator
Frac(n, d) ==
    LET g == GCD(Abs(n), Abs(d))
        s == Sign(d)
    IN  <<(s * n) \div g, (s * d) \div g>>

FromInt(i) == <<i, 1>>

IsNaN(x) == x = NaN
IsInf(x) == x[2] = 0 /\ x[1] # 0
IsFinite(x) == x[2] > 0

Neg(x) == <<-x[1], x[2]>>

FAbs(x) == <<Abs(x[1]), x[2]>>

Add(x, y) ==
    IF IsNaN(x) \/ IsNaN(y) THEN NaN
    ELSE IF IsInf(x) /\ IsInf(y) THEN (IF x = y THEN x ELSE NaN)
    ELSE IF IsInf(x) THEN x
    ELSE IF IsInf(y) THEN y
    ELSE Frac(x[1] * y[2] + y[1] * x[2], x[2] * y[2])

Sub(x, y) == Add(x, Neg(y))

Mul(x, y) ==
    IF IsNaN(x) \/ IsNaN(y) THEN NaN
    ELSE IF IsInf(x) \/ IsInf(y)
         THEN (IF x[1] = 0 \/ y[1] = 0 THEN NaN
               ELSE <<Sign(x[1]) * Sign(y[1]), 0>>)
    ELSE Frac(x[1] * y[1], x[2] * y[2])

\* a division that answers 0 for a zero divisor instead of inf or NaN
Div_ZeroGuard(x, y) ==
    IF IsNaN(x) \/ IsNaN(y) THEN NaN
    ELSE IF IsInf(y) THEN (IF IsInf(x) THEN NaN ELSE Zero)
    ELSE IF y[1] = 0 THEN Zero
    ELSE IF IsInf(x) THEN <<Sign(x[1]) * Sign(y[1]), 0>>
    ELSE Frac(x[1] * y[2], x[2] * y[1])

\* x / y with numpy's default error state: a division by zero warns and
\* yields inf or NaN, it does not raise
Div(x, y) ==
    IF IsNaN(x) \/ IsNaN(y) THEN NaN
    ELSE IF IsInf(y) THEN (IF IsInf(x) THEN NaN ELSE Zero)
    ELSE IF y[1] = 0 THEN (IF x[1] = 0 THEN NaN ELSE <<Sign(x[1]), 0>>)
    ELSE IF IsInf(x) THEN <<Sign(x[1]) * Sign(y[1]), 0>>
    ELSE Frac(x[1] * y[2], x[2] * y[1])

\* x <= y; every comparison with NaN is false
Le(x, y) ==
    IF IsNaN(x) \/ IsNaN(y) THEN FALSE
    ELSE IF IsInf(x) THEN (x = NegInf \/ y = PosInf)
    ELSE IF IsInf(y) THEN y = PosInf
    ELSE x[1] * y[2] <= y[1] * x[2]

-----------------------------------------------------------------------------
(* The library functions the code calls *)

\* the sequence s as an explicit tuple of its elements
Tuple(s) == s \o <<>>

RECURSIVE SumTo(_, _)
\* s[1] + ... + s[n], added left to right
SumTo(s, n) == IF n = 0 THEN Zero ELSE Add(SumTo(s, n - 1), s[n])

\* left-to-right sum of a sequence of numbers
SumSeq(s) == LET t == Tuple(s) IN SumTo(t, Len(t))

\* the integer square root of a perfect square
ISqrt(q) == CHOOSE r \in 0..q : r * r = q

IsSquare(q) == \E r \in 0..q : r * r = q

\* np.asarray(v): the integer sequence as an array of floats
asarray(v) == Tuple([i \in 1..Len(v) |-> FromInt(v[i])])

\* np.linalg.norm(v) of a caller's vector: sqrt(sum of squares)
norm(v) == <<ISqrt(SumSeq([i \in 1..Len(v) |-> FromInt(v[i] * v[i])])[1]), 1>>

\* array / scalar, elementwise
ArrayDiv(a, x) == Tuple([i \in 1..Len(a) |-> Div(a[i], x)])

\* a.dot(b) for arrays of equal length
dot(a, b) == SumSeq([i \in 1..Len(a) |-> Mul(a[i], b[i])])

\* np.outer(a, b)
outer(a, b) == Tuple([i \in 1..Len(a) |-> Tuple([j \in 1..Len(b) |-> Mul(a[i], b[j])])])

\* np.eye(n)
eye(n) == Tuple([i \in 1..n |-> Tuple([j \in 1..n |-> IF i = j THEN One ELSE Zero])])

MatAdd(A, B) == Tuple([i \in 1..Len(A) |-> Tuple([j \in 1..Len(A[i]) |-> Add(A[i][j], B[i][j])])])

MatSub(A, B) == Tuple([i \in 1..Len(A) |-> Tuple([j \in 1..Len(A[i]) |-> Sub(A[i][j], B[i][j])])])

\* scalar * matrix
MatScale(x, A) == Tuple([i \in 1..Len(A) |-> Tuple([j \in 1..Len(A[i]) |-> Mul(x, A[i][j])])])

\* math.cos and math.sin of a quarter turn count q
CosQ(q) == LET r == q % 4 IN IF r = 0 THEN One ELSE IF r = 2 THEN <<-1, 1>> ELSE Zero
SinQ(q) == LET r == q % 4 IN IF r = 1 THEN One ELSE IF r = 3 THEN <<-1, 1>> ELSE Zero

RECURSIVE CosT(_)
RECURSIVE SinT(_)
\* cosine and sine of k * arctan(4/3), by the addition theorem from cos = 3/5, sin = 4/5
CosT(k) ==
    IF k = 0 THEN One
    ELSE IF k < 0 THEN CosT(-k)
    ELSE Sub(Mul(CosT(k - 1), <<3, 5>>), Mul(SinT(k - 1), <<4, 5>>))
SinT(k) ==
    IF k = 0 THEN Zero
    ELSE IF k < 0 THEN Neg(SinT(-k))
    ELSE Add(Mul(SinT(k - 1), <<3, 5>>), Mul(CosT(k - 1), <<4, 5>>))

\* math.cos(a), math.sin(a) for the angle a = <<q, k>> = q*(pi/2) + k*arctan(4/3)
cos(a) == Sub(Mul(CosQ(a[1]), CosT(a[2])), Mul(SinQ(a[1]), SinT(a[2])))
sin(a) == Add(Mul(SinQ(a[1]), CosT(a[2])), Mul(CosQ(a[1]), SinT(a[2])))

\* the default rel_tol of math.isclose is 1e-09 = 1 / RelTolDen
RelTolDen == 1000000000

\* diff <= fabs(rel_tol * x) for a finite diff >= 0, computed without leaving
\* the integer range: p/q <= r/(s * RelTolDen)  iff  p*s <= (r*q) div RelTolDen
LeRelTol(diff, x) ==
    IF IsNaN(diff) \/ IsNaN(x) THEN FALSE
    ELSE IF IsInf(x) THEN TRUE
    ELSE diff[1] * x[2] <= (Abs(x[1]) * diff[2]) \div RelTolDen

\* isclose with a strict comparison against abs_tol
isclose_Strict(a, b, tol) ==
    IF (~IsNaN(a)) /\ a = b THEN TRUE
    ELSE IF IsInf(a) \/ IsInf(b) THEN FALSE
    ELSE LET diff == FAbs(Sub(b, a))
         IN  LeRelTol(diff, b) \/ LeRelTol(diff, a) \/ (Le(diff, tol) /\ diff # tol)

\* math.isclose(a, b, abs_tol=abs_tol), as CPython computes it
isclose(a, b, tol) ==
    IF (~IsNaN(a)) /\ a = b THEN TRUE
    ELSE IF IsInf(a) \/ IsInf(b) THEN FALSE
    ELSE LET diff == FAbs(Sub(b, a))
         IN  LeRelTol(diff, b) \/ LeRelTol(diff, a) \/ Le(diff, tol)

-----------------------------------------------------------------------------
(* rotation_from_angle_and_plane, one operator per statement *)

\* the array without the division by its norm
normalized_NoDivision(v) == asarray(v)

\* line 41 / 42: np.asarray(vector)/np.linalg.norm(vector)
normalized(v) == ArrayDiv(asarray(v), norm(v))

\* V with the second outer product subtracted
MakeV_Minus(v1, v2) == MatSub(outer(v1, v1), outer(v2, v2))

\* V from vector1 alone
MakeV_OnlyFirst(v1, v2) == outer(v1, v1)

\* line 52
MakeV(v1, v2) == MatAdd(outer(v1, v1), outer(v2, v2))

\* W with its two outer products exchanged
MakeW_Swapped(v1, v2) == MatSub(outer(v2, v1), outer(v1, v2))

\* line 53
MakeW(v1, v2) == MatSub(outer(v1, v2), outer(v2, v1))

\* the formula with cos(a) in place of cos(a) - 1
ReturnValue_NoMinusOne(a, n, Vm, Wm) ==
    MatSub(MatAdd(eye(n), MatScale(cos(a), Vm)), MatScale(sin(a), Wm))

\* the formula with sine and cosine exchanged
ReturnValue_SinCos(a, n, Vm, Wm) ==
    MatSub(MatAdd(eye(n), MatScale(Sub(sin(a), One), Vm)), MatScale(cos(a), Wm))

\* line 55
ReturnValue(a, n, Vm, Wm) ==
    MatSub(MatAdd(eye(n), MatScale(Sub(cos(a), One), Vm)), MatScale(sin(a), Wm))

\* how a call can end
NoResult == [kind |-> "none", matrix |-> <<>>, len1 |-> 0, len2 |-> 0, tol |-> Zero]
DimensionMismatch(l1, l2) ==
    [kind |-> "DimensionMismatch", matrix |-> <<>>, len1 |-> l1, len2 |-> l2, tol |-> Zero]
NotOrthogonal(tol) ==
    [kind |-> "NotOrthogonal", matrix |-> <<>>, len1 |-> 0, len2 |-> 0, tol |-> tol]
Returned(M) == [kind |-> "matrix", matrix |-> M, len1 |-> 0, len2 |-> 0, tol |-> Zero]

\* the whole call as a function of its arguments
rotation_from_angle_and_plane(a, x1, x2, tol) ==
    LET v1 == normalized(x1)
        v2 == normalized(x2)
    IN  IF Len(v1) # Len(v2) THEN DimensionMismatch(Len(v1), Len(v2))
        ELSE IF ~isclose(dot(v1, v2), Zero, tol) THEN NotOrthogonal(tol)
        ELSE Returned(ReturnValue(a, Len(v1), MakeV(v1, v2), MakeW(v1, v2)))

-----------------------------------------------------------------------------
(* The inputs *)

SumSq(v) == SumSeq([i \in 1..Len(v) |-> FromInt(v[i] * v[i])])[1]

VectorsOfDim(n) == {v \in [1..n -> (-MaxComp)..MaxComp] : IsSquare(SumSq(v))}

Vectors == UNION {VectorsOfDim(n) : n \in 0..MaxDim}

Angles == (0..MaxQuarter) \X ((-MaxTheta)..MaxTheta)

\* the tolerances 0, 1/TolSteps, 2/TolSteps, ..., 1
Tolerances == {Frac(k, TolSteps) : k \in 0..TolSteps}

-----------------------------------------------------------------------------
(* The call as a state machine *)

Init ==
    /\ pc = "l41"
    /\ arg1 \in Vectors
    /\ arg2 \in Vectors
    /\ angle \in Angles
    /\ abs_tol \in Tolerances
    /\ vector1 = arg1
    /\ vector2 = arg2
    /\ V = <<>>
    /\ W = <<>>
    /\ result = NoResult
    /\ steps = <<>>

Normalize1 ==
    /\ pc = "l41"
    /\ vector1' = normalized(vector1)
    /\ pc' = "l42"
    /\ steps' = Append(steps, "l41")
    /\ UNCHANGED <<arg1, arg2, angle, abs_tol, vector2, V, W, result>>

Normalize2 ==
    /\ pc = "l42"
    /\ vector2' = normalized(vector2)
    /\ pc' = "l44"
    /\ steps' = Append(steps, "l42")
    /\ UNCHANGED <<arg1, arg2, angle, abs_tol, vector1, V, W, result>>

\* a length check that only rejects a shorter vector1
LengthCheck_Shorter ==
    /\ pc = "l44"
    /\ IF Len(vector1) < Len(vector2)
       THEN /\ result' = DimensionMismatch(Len(vector1), Len(vector2))
            /\ pc' = "done"
       ELSE /\ result' = result
            /\ pc' = "l48"
    /\ steps' = Append(steps, "l44")
    /\ UNCHANGED <<arg1, arg2, angle, abs_tol, vector1, vector2, V, W>>

LengthCheck ==
    /\ pc = "l44"
    /\ IF Len(vector1) # Len(vector2)
       THEN /\ result' = DimensionMismatch(Len(vector1), Len(vector2))
            /\ pc' = "done"
       ELSE /\ result' = result
            /\ pc' = "l48"
    /\ steps' = Append(steps, "l44")
    /\ UNCHANGED <<arg1, arg2, angle, abs_tol, vector1, vector2, V, W>>

\* an orthogonality check that notes the error and carries on
OrthogonalityCheck_NoRaise ==
    /\ pc = "l48"
    /\ IF ~isclose(dot(vector1, vector2), Zero, abs_tol)
       THEN result' = NotOrthogonal(abs_tol)
       ELSE result' = result
    /\ pc' = "l52"
    /\ steps' = Append(steps, "l48")
    /\ UNCHANGED <<arg1, arg2, angle, abs_tol, vector1, vector2, V, W>>

OrthogonalityCheck ==
    /\ pc = "l48"
    /\ IF ~isclose(dot(vector1, vector2), Zero, abs_tol)
       THEN /\ result' = NotOrthogonal(abs_tol)
            /\ pc' = "done"
       ELSE /\ result' = result
            /\ pc' = "l52"
    /\ steps' = Append(steps, "l48")
    /\ UNCHANGED <<arg1, arg2, angle, abs_tol, vector1, vector2, V, W>>

BuildV ==
    /\ pc = "l52"
    /\ V' = MakeV(vector1, vector2)
    /\ pc' = "l53"
    /\ steps' = Append(steps, "l52")
    /\ UNCHANGED <<arg1, arg2, angle, abs_tol, vector1, vector2, W, result>>

BuildW ==
    /\ pc = "l53"
    /\ W' = MakeW(vector1, vector2)
    /\ pc' = "l55"
    /\ steps' = Append(steps, "l53")
    /\ UNCHANGED <<arg1, arg2, angle, abs_tol, vector1, vector2, V, result>>

Return ==
    /\ pc = "l55"
    /\ result' = Returned(ReturnValue(angle, Len(vector1), V, W))
    /\ pc' = "done"
    /\ steps' = Append(steps, "l55")
    /\ UNCHANGED <<arg1, arg2, angle, abs_tol, vector1, vector2, V, W>>

Next ==
    \/ Normalize1
    \/ Normalize2
    \/ LengthCheck
    \/ OrthogonalityCheck
    \/ BuildV
    \/ BuildW
    \/ Return

Spec == Init /\ [][Next]_vars

-----------------------------------------------------------------------------
(* Vocabulary of the properties *)

MaxScale == 2

Scalars == {k \in (-MaxScale)..MaxScale : k # 0}

Scale(k, v) == Tuple([i \in 1..Len(v) |-> k * v[i]])

Transpose(A) == Tuple([i \in 1..Len(A) |-> Tuple([j \in 1..Len(A) |-> A[j][i]])])

MatMul(A, B) ==
    Tuple([i \in 1..Len(A) |-> Tuple([j \in 1..Len(A) |->
        SumSeq([k \in 1..Len(A) |-> Mul(A[i][k], B[k][j])])])])

MatVec(A, x) == Tuple([i \in 1..Len(A) |-> SumSeq([k \in 1..Len(A) |-> Mul(A[i][k], x[k])])])

VecAdd(x, y) == Tuple([i \in 1..Len(x) |-> Add(x[i], y[i])])

VecScale(c, x) == Tuple([i \in 1..Len(x) |-> Mul(c, x[i])])

\* A without row 1 and column j
Minor(A, j) ==
    Tuple([i \in 1..(Len(A) - 1) |-> Tuple([k \in 1..(Len(A) - 1) |->
        A[i + 1][IF k < j THEN k ELSE k + 1]])])

RECURSIVE Det(_)
\* determinant by expansion along the first row
Det(A) ==
    IF Len(A) = 0 THEN One
    ELSE IF Len(A) = 1 THEN A[1][1]
    ELSE SumSeq([j \in 1..Len(A) |->
            Mul(IF j % 2 = 1 THEN A[1][j] ELSE Neg(A[1][j]), Det(Minor(A, j)))])

IsSquareMatrix(A, n) == Len(A) = n /\ \A i \in 1..n : Len(A[i]) = n

AllFinite(A) == \A i \in 1..Len(A) : \A j \in 1..Len(A[i]) : IsFinite(A[i][j])

ZeroNorm(v) == SumSq(v) = 0

NegAngle(a) == <<-a[1], -a[2]>>

AngleSum(a, b) == <<a[1] + b[1], a[2] + b[2]>>

Done == pc = "done"

SameLength == Len(arg1) = Len(arg2)

\* the dot product of the two normalized arguments (equal lengths)
ArgDot == dot(normalized(arg1), normalized(arg2))

\* equal-length, non-zero vectors
NonZeroPair == SameLength /\ ~ZeroNorm(arg1) /\ ~ZeroNorm(arg2)

\* a non-zero pair that is exactly orthogonal
OrthogonalPair == NonZeroPair /\ ArgDot = Zero

\* the matrix of a call on the same plane with another angle or other vectors
build(a, x1, x2) == rotation_from_angle_and_plane(a, x1, x2, abs_tol).matrix

-----------------------------------------------------------------------------
(* C1 *)

\* C1: whenever the two vectors have different lengths, the call never gets
\* past the length check, for any angle and tolerance, and ends with the
\* dimension-mismatch error carrying both lengths and without a matrix.
C1_DimensionMismatch ==
    (~SameLength) =>
        /\ pc \in {"l41", "l42", "l44", "done"}
        /\ V = <<>> /\ W = <<>>
        /\ Done => result = DimensionMismatch(Len(arg1), Len(arg2))

\* the spec's example build(theta, [1,0,0], [0,1]) has ended, rejected
C1_Witness ==
    /\ Done
    /\ arg1 = <<1, 0, 0>> /\ arg2 = <<0, 1>>
    /\ result.kind = "DimensionMismatch" /\ result.len1 = 3 /\ result.len2 = 2

(* C2 *)

\* C2: for equal-length non-zero vectors and any non-negative tolerance a
\* finished call has raised the not-orthogonal error exactly when |v1.v2| of
\* the normalized vectors is strictly greater than the tolerance, and has
\* returned a matrix exactly when |v1.v2| <= tolerance.
C2_OrthogonalityCheck ==
    (Done /\ NonZeroPair) =>
        LET d == FAbs(ArgDot)
            within == d[1] * abs_tol[2] <= abs_tol[1] * d[2]
        IN  /\ result.kind = "NotOrthogonal" <=> ~within
            /\ result.kind = "matrix" <=> within
            /\ result.kind = "NotOrthogonal" => result.tol = abs_tol

\* a call whose dot product equals a positive tolerance has returned a matrix
C2_Witness ==
    /\ Done /\ NonZeroPair
    /\ ArgDot # Zero /\ FAbs(ArgDot) = abs_tol
    /\ result.kind = "matrix"

(* C3 *)

\* C3 as stated: with a zero-norm vector (equal lengths n >= 1) the call
\* raises nothing and returns a matrix with non-finite entries.
C3_AsStated ==
    (Done /\ SameLength /\ Len(arg1) >= 1 /\ (ZeroNorm(arg1) \/ ZeroNorm(arg2))) =>
        /\ result.kind = "matrix"
        /\ ~AllFinite(result.matrix)

\* C3 amended: with a zero-norm vector (equal lengths n >= 1) normalization
\* raises nothing and yields NaN entries, the NaN dot product fails the
\* orthogonality check for every tolerance, and the call ends with the
\* not-orthogonal error and no matrix.
C3_ZeroNormRejected ==
    (SameLength /\ Len(arg1) >= 1 /\ (ZeroNorm(arg1) \/ ZeroNorm(arg2))) =>
        /\ (pc \notin {"l41", "l42"} /\ ZeroNorm(arg1)) =>
               \A i \in 1..Len(vector1) : IsNaN(vector1[i])
        /\ (pc \notin {"l41", "l42"} /\ ZeroNorm(arg2)) =>
               \A i \in 1..Len(vector2) : IsNaN(vector2[i])
        /\ pc \notin {"l52", "l53", "l55"}
        /\ Done => result = NotOrthogonal(abs_tol)

\* a call with a zero vector1 and the largest tolerance has ended, rejected
C3_Witness ==
    /\ Done
    /\ Len(arg1) = 3 /\ ZeroNorm(arg1) /\ arg2 = <<0, 1, 0>>
    /\ abs_tol = One
    /\ IsNaN(dot(vector1, vector2))
    /\ result.kind = "NotOrthogonal"

(* C4 *)

\* C4 as stated: for an orthogonal pair and non-zero scalars k, m of either
\* sign, build(angle, k*v1, m*v2) returns the matrix of build(angle, v1, v2).
C4_AsStated ==
    (Done /\ OrthogonalPair) =>
        \A k \in Scalars : \A m \in Scalars :
            rotation_from_angle_and_plane(angle, Scale(k, arg1), Scale(m, arg2), abs_tol)
                = result

\* C4 amended: for an orthogonal pair and non-zero scalars k, m,
\* build(angle, k*v1, m*v2) returns the matrix of build(angle, v1, v2) when k
\* and m have the same sign, and its transpose when their signs differ.
C4_ScalingInvariance ==
    (Done /\ OrthogonalPair) =>
        /\ result.kind = "matrix"
        /\ \A k \in Scalars : \A m \in Scalars :
            LET scaled ==
                  rotation_from_angle_and_plane(angle, Scale(k, arg1), Scale(m, arg2), abs_tol)
            IN  /\ scaled.kind = "matrix"
                /\ k * m > 0 => scaled.matrix = result.matrix
                /\ k * m < 0 => scaled.matrix = Transpose(result.matrix)

\* a finished rotation by an angle with non-zero sine in a plane that is not
\* a coordinate plane, so the matrix differs from its transpose
C4_Witness ==
    /\ Done /\ OrthogonalPair /\ MaxScale >= 2
    /\ arg1 = <<1, 1, 1, 1>> /\ arg2 = <<1, -1, 1, -1>>
    /\ sin(angle) # Zero
    /\ result.kind = "matrix"
    /\ result.matrix # Transpose(result.matrix)

(* C5 *)

\* C5: for an orthogonal pair of length n >= 2 with normalized forms v1, v2
\* the returned matrix M satisfies M.v1 = cos(a) v1 + sin(a) v2,
\* M.v2 = -sin(a) v1 + cos(a) v2 and M.x = x for every x orthogonal to v1 and
\* v2; build(pi/2, [1,0], [0,1]) is [[0,-1],[1,0]], and build(pi/2, e1, e2)
\* in 4D sends e1 to e2 and fixes e3 and e4.
C5_RotationInPlane ==
    (Done /\ OrthogonalPair /\ Len(arg1) >= 2) =>
        LET M == result.matrix
            n == Len(arg1)
            c == cos(angle)
            sn == sin(angle)
            e(i) == [j \in 1..n |-> IF j = i THEN One ELSE Zero]
        IN  /\ result.kind = "matrix"
            /\ MatVec(M, vector1) = VecAdd(VecScale(c, vector1), VecScale(sn, vector2))
            /\ MatVec(M, vector2) = VecAdd(VecScale(Neg(sn), vector1), VecScale(c, vector2))
            /\ \A x \in [1..n -> (-MaxComp)..MaxComp] :
                  (dot(asarray(x), vector1) = Zero /\ dot(asarray(x), vector2) = Zero)
                      => MatVec(M, asarray(x)) = asarray(x)
            /\ (angle = <<1, 0>> /\ arg1 = <<1, 0>> /\ arg2 = <<0, 1>>) =>
                  M = << <<Zero, <<-1, 1>> >>, <<One, Zero>> >>
            /\ (angle = <<1, 0>> /\ arg1 = <<1, 0, 0, 0>> /\ arg2 = <<0, 1, 0, 0>>) =>
                  /\ MatVec(M, e(1)) = e(2)
                  /\ MatVec(M, e(3)) = e(3)
                  /\ MatVec(M, e(4)) = e(4)

\* a finished rotation in 4D by an angle with non-zero sine and cosine, in a
\* plane that is not a coordinate plane
C5_Witness ==
    /\ Done /\ OrthogonalPair
    /\ arg1 = <<1, 1, 1, 1>> /\ arg2 = <<1, 1, -1, -1>>
    /\ sin(angle) # Zero /\ cos(angle) # Zero
    /\ result.kind = "matrix"
    /\ MatVec(result.matrix, asarray(<<1, -1, 0, 0>>)) = asarray(<<1, -1, 0, 0>>)
    /\ MatVec(result.matrix, vector1) # vector1

(* C6 *)

\* C6 as stated: every matrix returned for equal-length non-zero vectors,
\* n >= 2, that passed the orthogonality check under the caller's tolerance
\* has M.M^T = I and det(M) = 1.
C6_AsStated ==
    (Done /\ NonZeroPair /\ Len(arg1) >= 2 /\ result.kind = "matrix") =>
        /\ MatMul(result.matrix, Transpose(result.matrix)) = eye(Len(arg1))
        /\ Det(result.matrix) = One

\* C6 amended: every matrix returned for equal-length non-zero vectors,
\* n >= 2, that are exactly orthogonal is n x n with M.M^T = I and det(M) = 1.
C6_ProperRotation ==
    (Done /\ OrthogonalPair /\ Len(arg1) >= 2) =>
        /\ result.kind = "matrix"
        /\ IsSquareMatrix(result.matrix, Len(arg1))
        /\ MatMul(result.matrix, Transpose(result.matrix)) = eye(Len(arg1))
        /\ Det(result.matrix) = One

\* a finished rotation, not the identity, in a plane that is not a coordinate plane
C6_Witness ==
    /\ Done /\ OrthogonalPair
    /\ arg1 = <<1, 1, 1, 1>> /\ arg2 = <<1, -1, -1, 1>>
    /\ sin(angle) # Zero /\ cos(angle) # Zero
    /\ result.kind = "matrix"
    /\ result.matrix # eye(4)

(* C7 *)

\* C7: for an orthogonal pair and all angles alpha, beta,
\* build(alpha).build(beta) = build(alpha + beta) on the same plane, and the
\* two factors commute.
C7_Additivity ==
    (Done /\ OrthogonalPair) =>
        /\ result.kind = "matrix"
        /\ \A beta \in Angles :
            LET B == build(beta, arg1, arg2)
            IN  /\ MatMul(result.matrix, B) = build(AngleSum(angle, beta), arg1, arg2)
                /\ MatMul(B, result.matrix) = MatMul(result.matrix, B)

\* a finished rotation whose square is neither itself nor the identity
C7_Witness ==
    /\ Done /\ OrthogonalPair /\ Len(arg1) >= 3
    /\ sin(angle) # Zero /\ cos(angle) # Zero
    /\ result.kind = "matrix"
    /\ MatMul(result.matrix, result.matrix) # result.matrix
    /\ MatMul(result.matrix, result.matrix) # eye(Len(arg1))
    /\ MatMul(result.matrix, result.matrix) = build(AngleSum(angle, angle), arg1, arg2)

(* C8 *)

\* C8: for n >= 2 and every pair of non-zero vectors of length n that passes
\* the orthogonality check, build(0, v1, v2) is the n x n identity matrix.
C8_IdentityAtZero ==
    (Done /\ NonZeroPair /\ Len(arg1) >= 2 /\ angle = <<0, 0>> /\ result.kind # "NotOrthogonal") =>
        /\ result.kind = "matrix"
        /\ result.matrix = eye(Len(arg1))

\* a finished call with angle 0 on a pair that passed the check without
\* being orthogonal
C8_Witness ==
    /\ Done /\ NonZeroPair /\ Len(arg1) >= 2
    /\ angle = <<0, 0>>
    /\ ArgDot # Zero
    /\ result.kind = "matrix"
    /\ MakeV(vector1, vector2) # eye(Len(arg1))

(* C9 *)

SourceLines == <<"l41", "l42", "l44", "l48", "l52", "l53", "l55">>

\* C9: the statements run in the order normalize (41, 42), length check (44),
\* orthogonality check (48), construction (52, 53, 55); construction is
\* reached only after both checks passed; a finished call has exactly one of
\* the three outcomes, and an error never comes with a partly built matrix.
C9_StepOrder ==
    /\ Len(steps) <= Len(SourceLines)
    /\ steps = SubSeq(SourceLines, 1, Len(steps))
    /\ pc # "done" => (pc = SourceLines[Len(steps) + 1] /\ result = NoResult)
    /\ pc \in {"l52", "l53", "l55"} =>
          /\ Len(vector1) = Len(vector2)
          /\ isclose(dot(vector1, vector2), Zero, abs_tol)
    /\ pc = "done" =>
          /\ result.kind \in {"DimensionMismatch", "NotOrthogonal", "matrix"}
          /\ result.kind = "DimensionMismatch" =>
                /\ steps = SubSeq(SourceLines, 1, 3)
                /\ Len(vector1) # Len(vector2)
                /\ V = <<>> /\ W = <<>> /\ result.matrix = <<>>
          /\ result.kind = "NotOrthogonal" =>
                /\ steps = SubSeq(SourceLines, 1, 4)
                /\ Len(vector1) = Len(vector2)
                /\ ~isclose(dot(vector1, vector2), Zero, abs_tol)
                /\ V = <<>> /\ W = <<>> /\ result.matrix = <<>>
          /\ result.kind = "matrix" =>
                /\ steps = SourceLines
                /\ Len(vector1) = Len(vector2)
                /\ isclose(dot(vector1, vector2), Zero, abs_tol)
                /\ IsSquareMatrix(result.matrix, Len(vector1))

\* a call that was rejected by the orthogonality check after passing the
\* length check
C9_Witness ==
    /\ pc = "done"
    /\ steps = <<"l41", "l42", "l44", "l48">>
    /\ Len(arg1) = 4
    /\ result.kind = "NotOrthogonal"

(* C10 *)

\* C10: for an orthogonal pair and every angle a, build(a, v2, v1),
\* build(-a, v1, v2) and the transpose of build(a, v1, v2) are the same
\* matrix, and it is the inverse of build(a, v1, v2).
C10_OrientationSymmetry ==
    (Done /\ OrthogonalPair) =>
        LET M == result.matrix
            T == Transpose(M)
        IN  /\ result.kind = "matrix"
            /\ build(angle, arg2, arg1) = T
            /\ build(NegAngle(angle), arg1, arg2) = T
            /\ MatMul(M, T) = eye(Len(arg1))
            /\ MatMul(T, M) = eye(Len(arg1))

\* a finished rotation that differs from its inverse
C10_Witness ==
    /\ Done /\ OrthogonalPair /\ Len(arg1) = 3
    /\ sin(angle) # Zero /\ cos(angle) # Zero
    /\ result.kind = "matrix"
    /\ result.matrix # Transpose(result.matrix)
    /\ build(angle, arg2, arg1) # result.matrix

=============================================================================
